---- MODULE Spec2Model ----
(***************************************************************************)
(* State-machine model of the effective-area stage pisa.stages.aeff.hist   *)
(* (src/pisa/stages/aeff/hist.py): construction, load_events,              *)
(* _compute_nominal_transforms and _compute_transforms.                    *)
(*                                                                         *)
(* Names.  A name such as 'nue_cc+nuebar_cc' is a sequence of tokens; a    *)
(* token is <<flavour, int>> with int "cc", "nc" or "" (no suffix: both    *)
(* interaction types).  'nue' is << <<"nue", "">> >>.                      *)
(* Arrays.  A one-bin array is the record [num, vol, pi] standing for      *)
(* num / (vol * pi^pi); arrays live in a heap indexed by storage ids, so   *)
(* that sharing and in-place modification are visible.                     *)
(***************************************************************************)
EXTENDS Integers, Sequences, FiniteSets, TLC

VARIABLES
    pc,                    \* "new", "ready" (constructed) or "failed"
    base_init,             \* Stage.__init__ has run (hist.py:129)
    particles,
    transform_groups,      \* sequence of category groups (sets of flavints)
    sum_grouped_flavints,
    input_names,
    output_names,
    input_binning,
    output_binning,
    params,                \* aeff_weight_file, livetime, aeff_scale, nutau_cc_norm
    events,                \* source the held Events were built from, or None
    events_hash,
    nominal_transforms,    \* Transform Set of the nominal phase, or None
    transforms,            \* Transform Set last returned by the rescale phase
    heap,                  \* storage id -> array
    last,                  \* the operation invoked last
    outcome,               \* "ok" or the exception the last operation raised
    hist_calls,            \* calls of events.histogram during the last operation
    events_built,          \* Events(...) was invoked during the last operation
    repeat                 \* the last operation directly followed a successful
                           \* invocation of the same operation

vars == <<pc, base_init, particles, transform_groups, sum_grouped_flavints,
          input_names, output_names, input_binning, output_binning, params,
          events, events_hash, nominal_transforms, transforms, heap, last,
          outcome, hist_calls, events_built, repeat>>

None == "None"

\* ------------------------------------------------------------------ bounds
MaxGroups == 2
MaxParam == 2

\* ------------------------------------------------------- flavours and names
Flavs == <<"nue", "nuebar", "nutau", "nutaubar">>

IntTypes == <<"cc", "nc">>

ALL_NUFLAVINTS == {<<Flavs[i], IntTypes[j]>> : i \in 1..Len(Flavs), j \in 1..Len(IntTypes)}

\* the flavints a single token stands for
TokenFlavints(tok) ==
    IF tok[2] = "" THEN {<<tok[1], "cc">>, <<tok[1], "nc">>} ELSE {tok}

\* NuFlavIntGroup(name): the set of flavints a name stands for
NuFlavIntGroup(name) == UNION {TokenFlavints(name[i]) : i \in 1..Len(name)}

\* NuFlavIntGroup(sequence of names)
NuFlavIntGroupOfNames(names) == UNION {NuFlavIntGroup(names[i]) : i \in 1..Len(names)}

FlavToken(g, f) ==
    IF <<f, "cc">> \in g /\ <<f, "nc">> \in g THEN << <<f, "">> >>
    ELSE IF <<f, "cc">> \in g THEN << <<f, "cc">> >>
    ELSE IF <<f, "nc">> \in g THEN << <<f, "nc">> >>
    ELSE << >>

RECURSIVE StrFrom(_, _)
StrFrom(g, i) ==
    IF i > Len(Flavs) THEN << >> ELSE FlavToken(g, Flavs[i]) \o StrFrom(g, i + 1)

\* str(group): the canonical name of a group
Str(g) == StrFrom(g, 1)

\* str(flavint) and str(flav)
StrFlavInt(fi) == << fi >>

StrFlav(f) == << <<f, "">> >>

\* iteration order of a group's flavints: by flavour, cc before nc
RECURSIVE FlavintsFrom(_, _)
FlavintsFrom(g, i) ==
    IF i > Len(Flavs) THEN << >>
    ELSE (IF <<Flavs[i], "cc">> \in g THEN << <<Flavs[i], "cc">> >> ELSE << >>)
         \o (IF <<Flavs[i], "nc">> \in g THEN << <<Flavs[i], "nc">> >> ELSE << >>)
         \o FlavintsFrom(g, i + 1)

Flavints(g) == FlavintsFrom(g, 1)

\* group.flavs(): the flavours present in a group
FlavsOf(g) == {fi[1] : fi \in g}

\* `name in group`: every flavint the name stands for is in the group
Contains(g, name) == NuFlavIntGroup(name) \subseteq g

\* len(set(group).intersection(NuFlavIntGroup(input_name))) > 0
Intersects(g, name) == (g \cap NuFlavIntGroup(name)) # {}

\* ------------------------------------------------------------ event source
Sources == {"a.hdf5", "b.hdf5"}

\* hash_obj(evts)
hash_obj == [s \in Sources |-> IF s = "a.hdf5" THEN "3f9a" ELSE "c41d"]

FlavIntIndex(fi) == CHOOSE k \in 1..Len(Flavints(ALL_NUFLAVINTS)) : Flavints(ALL_NUFLAVINTS)[k] = fi

\* no Events object held yet
NoEvents == [source |-> None, weighted_aeff |-> [fi \in ALL_NUFLAVINTS |-> 0]]

\* Events(evts): the collection read from a source; per category the sum of the
\* weights (column weighted_aeff) of its events in the single bin
Events(evts) ==
    [source |-> evts,
     weighted_aeff |-> [fi \in ALL_NUFLAVINTS |->
                          (2 ^ (FlavIntIndex(fi) - 1)) * (IF evts = "a.hdf5" THEN 1 ELSE 3)]]

RECURSIVE SumWeights(_, _)
SumWeights(w, kinds) ==
    IF kinds = {} THEN 0
    ELSE LET fi == CHOOSE x \in kinds : TRUE
         IN  w[fi] + SumWeights(w, kinds \ {fi})

\* events.histogram(kinds=..., weights_col='weighted_aeff')
histogram(evts, kinds) == SumWeights(evts.weighted_aeff, kinds)

\* ----------------------------------------------------------------- binning
comp_units == {"true_energy", "true_coszen", "true_azimuth"}

DimNames == comp_units \cup {"true_foo"}

BinWidth == [d \in DimNames |->
               IF d = "true_energy" THEN 9 ELSE IF d = "true_coszen" THEN 2 ELSE 1]

NamesOf(binning) == {binning[i] : i \in 1..Len(binning)}

RECURSIVE bin_volumes_from(_, _)
bin_volumes_from(binning, i) ==
    IF i > Len(binning) THEN 1
    ELSE BinWidth[binning[i]] * bin_volumes_from(binning, i + 1)

\* input_binning.bin_volumes(attach_units=False), one bin per dimension
bin_volumes(binning) == bin_volumes_from(binning, 1)

\* the validation without the test for excess dimensions
BinningErrorEnergyOnly(binning) ==
    IF "true_energy" \notin NamesOf(binning) THEN "ValueError" ELSE None

\* the validation of the input binning: the error raised, or None
BinningError(binning) ==
    IF "true_energy" \notin NamesOf(binning) THEN "ValueError"
    ELSE IF (NamesOf(binning) \ comp_units) # {} THEN "ValueError"
    ELSE None

\* missing_dims_vol, as c * pi^pi
missing_dims_vol(binning) ==
    [c  |-> (IF "true_azimuth" \notin NamesOf(binning) THEN 2 ELSE 1)
            * (IF "true_coszen" \notin NamesOf(binning) THEN 2 ELSE 1),
     pi |-> IF "true_azimuth" \notin NamesOf(binning) THEN 1 ELSE 0]

\* the histogram of a group divided by (bin_volumes * missing_dims_vol)
NominalArray(evts, g, binning) ==
    [num |-> histogram(evts, g),
     vol |-> bin_volumes(binning) * missing_dims_vol(binning).c,
     pi  |-> missing_dims_vol(binning).pi]

\* array * scalar
ArrayTimes(a, k) == [a EXCEPT !.num = @ * k]

\* ------------------------------------------------------ transform assembly
BinnedTensorTransform(in_names, out_name, in_binning, out_binning, array, sum_inputs) ==
    [input_names |-> in_names, output_name |-> out_name,
     input_binning |-> in_binning, output_binning |-> out_binning,
     xform_array |-> array, sum_inputs |-> sum_inputs]

RECURSIVE SelectNames(_, _, _)
SelectNames(names, g, i) ==
    IF i > Len(names) THEN << >>
    ELSE (IF Intersects(g, names[i]) THEN <<names[i]>> ELSE << >>)
         \o SelectNames(names, g, i + 1)

\* emit one transform for every output name contained in the group
RECURSIVE EmitOutputs(_, _, _, _, _, _, _, _)
EmitOutputs(in_names, outs, k, g, in_binning, out_binning, array, sum_inputs) ==
    IF k > Len(outs) THEN << >>
    ELSE (IF Contains(g, outs[k])
          THEN <<BinnedTensorTransform(in_names, outs[k], in_binning, out_binning,
                                       array, sum_inputs)>>
          ELSE << >>)
         \o EmitOutputs(in_names, outs, k + 1, g, in_binning, out_binning, array, sum_inputs)

\* merged mode: one transform per output name in the group, fed by every
\* declared input name that intersects the group
MergedXforms(ins, outs, g, in_binning, out_binning, array, sum_inputs) ==
    EmitOutputs(SelectNames(ins, g, 1), outs, 1, g, in_binning, out_binning,
                array, sum_inputs)

RECURSIVE UnmergedFrom(_, _, _, _, _, _, _, _)
UnmergedFrom(ins, i, outs, g, in_binning, out_binning, array, sum_inputs) ==
    IF i > Len(ins) THEN << >>
    ELSE (IF ~Intersects(g, ins[i]) THEN << >>
          ELSE EmitOutputs(<<ins[i]>>, outs, 1, g, in_binning, out_binning,
                           array, sum_inputs))
         \o UnmergedFrom(ins, i + 1, outs, g, in_binning, out_binning, array, sum_inputs)

RECURSIVE EveryInputFrom(_, _, _, _, _, _, _, _)
EveryInputFrom(ins, i, outs, g, in_binning, out_binning, array, sum_inputs) ==
    IF i > Len(ins) THEN << >>
    ELSE EmitOutputs(<<ins[i]>>, outs, 1, g, in_binning, out_binning, array, sum_inputs)
         \o EveryInputFrom(ins, i + 1, outs, g, in_binning, out_binning, array, sum_inputs)

\* unmerged mode without the intersection test on the input name
UnmergedXformsEveryInput(ins, outs, g, in_binning, out_binning, array, sum_inputs) ==
    EveryInputFrom(ins, 1, outs, g, in_binning, out_binning, array, sum_inputs)

\* unmerged mode: one transform per (intersecting input name, output name in
\* the group)
UnmergedXforms(ins, outs, g, in_binning, out_binning, array, sum_inputs) ==
    UnmergedFrom(ins, 1, outs, g, in_binning, out_binning, array, sum_inputs)

\* the loop over the transform groups; the array of group i is stored at id i
RECURSIVE NominalFrom(_, _, _, _, _, _, _)
NominalFrom(groups, i, ins, outs, in_binning, out_binning, sum_inputs) ==
    IF i > Len(groups) THEN << >>
    ELSE (IF sum_inputs
          THEN MergedXforms(ins, outs, groups[i], in_binning, out_binning, i, sum_inputs)
          ELSE UnmergedXforms(ins, outs, groups[i], in_binning, out_binning, i, sum_inputs))
         \o NominalFrom(groups, i + 1, ins, outs, in_binning, out_binning, sum_inputs)

\* TransformSet(transforms): a held Transform Set is <<transforms>>, an absent
\* one is NoTransformSet
TransformSet(ts) == <<ts>>

NoTransformSet == << >>

\* the arrays the nominal phase allocates, by storage id
NominalHeap(evts, groups, binning) ==
    [i \in 1..Len(groups) |-> NominalArray(evts, groups[i], binning)]

\* ------------------------------------------------------------------ rescale
SecondsPer == [u \in {"s", "min"} |-> IF u = "s" THEN 1 ELSE 60]

\* quantity.m_as('sec')
m_as_sec(q) == q.m * SecondsPer[q.u]

SpecialNames == {StrFlavInt(<<"nutau", "cc">>), StrFlavInt(<<"nutaubar", "cc">>)}

Restrict(h, ids) == [i \in (DOMAIN h) \cap ids |-> h[i]]

\* array *= scalar: the product overwrites the array it was computed from
MultiplyInPlace(h, id, fresh, k) ==
    [heap |-> (id :> ArrayTimes(h[id], k)) @@ h, id |-> id]

\* array * scalar: the product is a new array, stored at id `fresh`
Multiply(h, id, fresh, k) ==
    [heap |-> (fresh :> ArrayTimes(h[id], k)) @@ h, id |-> fresh]

\* aeff_transform of a group, from the first matching nominal transform t
ScaledArray(h, t, fresh, k, norm) ==
    LET m1 == Multiply(h, t.xform_array, fresh, k)
    IN  IF t.output_name \in SpecialNames
        THEN Multiply(m1.heap, m1.id, fresh, norm)
        ELSE m1

flav_names(g) == {StrFlav(f) : f \in FlavsOf(g)}

\* the inner loop over the nominal transforms for one group; acc carries
\* aeff_transform (0 for None, or a storage id), the heap and the transforms emitted
RECURSIVE ScanNominal(_, _, _, _, _, _, _, _)
ScanNominal(nom, j, g, fresh, k, norm, sum_inputs, acc) ==
    IF j > Len(nom) \/ acc.err # None THEN acc
    ELSE LET t == nom[j]
         IN  IF Len(t.input_names) = 0
             THEN [acc EXCEPT !.err = "IndexError"]
             ELSE IF t.input_names[1] \in flav_names(g) /\ Contains(g, t.output_name)
             THEN LET m == IF acc.aeff = 0
                           THEN ScaledArray(acc.heap, t, fresh, k, norm)
                           ELSE [heap |-> acc.heap, id |-> acc.aeff]
                      x == BinnedTensorTransform(t.input_names, t.output_name,
                                                 t.input_binning, t.output_binning,
                                                 m.id, sum_inputs)
                  IN  ScanNominal(nom, j + 1, g, fresh, k, norm, sum_inputs,
                                  [acc EXCEPT !.aeff = m.id, !.heap = m.heap,
                                              !.out = Append(@, x)])
             ELSE ScanNominal(nom, j + 1, g, fresh, k, norm, sum_inputs, acc)

\* the outer loop over the transform groups; group i allocates id Len(groups)+i
RECURSIVE RescaleFrom(_, _, _, _, _, _, _)
RescaleFrom(groups, i, nom, k, norm, sum_inputs, acc) ==
    IF i > Len(groups) \/ acc.err # None THEN acc
    ELSE RescaleFrom(groups, i + 1, nom, k, norm, sum_inputs,
                     ScanNominal(nom, 1, groups[i], Len(groups) + i, k, norm,
                                 sum_inputs, [acc EXCEPT !.aeff = 0]))

Rescale(groups, nom, h, k, norm, sum_inputs) ==
    RescaleFrom(groups, 1, nom, k, norm, sum_inputs,
                [err |-> None, aeff |-> 0, heap |-> h, out |-> << >>])

\* ------------------------------------------------------------- load_events
\* load_events without the early return on an unchanged hash
LoadEventsUnguarded(evts, cur_events, cur_hash, readable) ==
    IF ~readable
    THEN [events |-> cur_events, events_hash |-> cur_hash, built |-> TRUE, err |-> "IOError"]
    ELSE [events |-> Events(evts), events_hash |-> hash_obj[evts], built |-> TRUE, err |-> None]

\* load_events storing the hash before the events are built
LoadEventsHashFirst(evts, cur_events, cur_hash, readable) ==
    LET this_hash == hash_obj[evts]
    IN  IF this_hash = cur_hash
        THEN [events |-> cur_events, events_hash |-> cur_hash, built |-> FALSE, err |-> None]
        ELSE IF ~readable
        THEN [events |-> cur_events, events_hash |-> this_hash, built |-> TRUE, err |-> "IOError"]
        ELSE [events |-> Events(evts), events_hash |-> this_hash, built |-> TRUE, err |-> None]

\* load_events: `readable` says whether Events(evts) succeeds when invoked
LoadEvents(evts, cur_events, cur_hash, readable) ==
    LET this_hash == hash_obj[evts]
    IN  IF this_hash = cur_hash
        THEN [events |-> cur_events, events_hash |-> cur_hash, built |-> FALSE, err |-> None]
        ELSE IF ~readable
        THEN [events |-> cur_events, events_hash |-> cur_hash, built |-> TRUE, err |-> "IOError"]
        ELSE [events |-> Events(evts), events_hash |-> this_hash, built |-> TRUE, err |-> None]

\* ------------------------------------------------------------ construction
\* input_names=None
NoNames == << >>

AllFlavNames == [i \in 1..Len(Flavs) |-> StrFlav(Flavs[i])]

\* input_names after the defaulting of lines 108-113
DefaultInputNames(p, in_names) ==
    IF in_names = NoNames
    THEN (IF p = "neutrinos" THEN AllFlavNames ELSE NoNames)
    ELSE in_names

\* flavintGroupsFromString
flavintGroupsFromString(spec) == [i \in 1..Len(spec) |-> NuFlavIntGroup(spec[i])]

\* output_names assigned for muons as well
OutputNamesBoundAnyParticle(p) == p \in {"neutrinos", "muons"}

\* whether lines 117-122 assign output_names
OutputNamesBound(p) == p = "neutrinos"

\* output_names as lines 118-122 compute it
OutputNames(sum_inputs, groups, in_names) ==
    IF sum_inputs
    THEN [i \in 1..Len(groups) |-> Str(groups[i])]
    ELSE LET fis == Flavints(NuFlavIntGroupOfNames(in_names))
         IN  [k \in 1..Len(fis) |-> StrFlavInt(fis[k])]

\* the exception construction ends in before Stage.__init__ is reached, or None
InitError(c, assertions) ==
    IF assertions /\ c.particles \notin {"neutrinos", "muons"} THEN "AssertionError"
    ELSE IF ~OutputNamesBound(c.particles) THEN "UnboundLocalError"
    ELSE None

\* hist.__init__; `assertions` is FALSE when the interpreter runs with -O.
\* input_names is given as a sequence of names (the comma-separated string form
\* of line 109 is taken as already split) or as NoNames.
init(cfgs, prms) ==
    /\ pc = "new"
    /\ \E c \in cfgs, p \in prms, assertions \in BOOLEAN :
         LET err == InitError(c, assertions)
             groups == flavintGroupsFromString(c.transform_groups)
             ins == DefaultInputNames(c.particles, c.input_names)
         IN  /\ last' = "__init__"
             /\ particles' = c.particles
             /\ IF err # None
                THEN /\ pc' = "failed"
                     /\ outcome' = err
                     /\ UNCHANGED <<base_init, transform_groups, sum_grouped_flavints,
                                    input_names, output_names, input_binning,
                                    output_binning, params>>
                ELSE /\ pc' = "ready"
                     /\ outcome' = "ok"
                     /\ base_init' = TRUE
                     /\ transform_groups' = groups
                     /\ sum_grouped_flavints' = c.sum_grouped_flavints
                     /\ input_names' = ins
                     /\ output_names' = OutputNames(c.sum_grouped_flavints, groups, ins)
                     /\ input_binning' = c.input_binning
                     /\ output_binning' = c.output_binning
                     /\ params' = p
    /\ UNCHANGED <<events, events_hash, nominal_transforms, transforms, heap,
                   hist_calls, events_built, repeat>>

\* ------------------------------------------------------------- operations
NominalIds == 1..Len(transform_groups)

\* a parameter of the stage's ParamSet is given a new value
set_param(values) ==
    /\ pc = "ready"
    /\ \E name \in DOMAIN values : \E v \in values[name] :
         /\ v # params[name]
         /\ params' = [params EXCEPT ![name] = v]
    /\ last' = "set_param"
    /\ outcome' = "ok"
    /\ hist_calls' = 0
    /\ events_built' = FALSE
    /\ repeat' = FALSE
    /\ UNCHANGED <<pc, base_init, particles, transform_groups, sum_grouped_flavints,
                   input_names, output_names, input_binning, output_binning,
                   events, events_hash, nominal_transforms, transforms, heap>>

load_events ==
    /\ pc = "ready"
    /\ \E readable \in BOOLEAN :
         LET r == LoadEvents(params.aeff_weight_file, events, events_hash, readable)
         IN  /\ events' = r.events
             /\ events_hash' = r.events_hash
             /\ events_built' = r.built
             /\ outcome' = IF r.err # None THEN r.err ELSE "ok"
    /\ last' = "load_events"
    /\ hist_calls' = 0
    /\ repeat' = (last = "load_events" /\ outcome = "ok")
    /\ UNCHANGED <<pc, base_init, particles, transform_groups, sum_grouped_flavints,
                   input_names, output_names, input_binning, output_binning, params,
                   nominal_transforms, transforms, heap>>

compute_nominal_transforms ==
    /\ pc = "ready"
    /\ \E readable \in BOOLEAN :
         LET r == LoadEvents(params.aeff_weight_file, events, events_hash, readable)
             e == IF r.err # None THEN r.err ELSE BinningError(input_binning)
         IN  /\ events' = r.events
             /\ events_hash' = r.events_hash
             /\ events_built' = r.built
             /\ IF e # None
                THEN /\ outcome' = e
                     /\ hist_calls' = 0
                     /\ UNCHANGED <<nominal_transforms, heap>>
                ELSE /\ outcome' = "ok"
                     /\ hist_calls' = Len(transform_groups)
                     /\ nominal_transforms' = TransformSet(
                            NominalFrom(transform_groups, 1, input_names, output_names,
                                        input_binning, output_binning,
                                        sum_grouped_flavints))
                     /\ heap' = NominalHeap(r.events, transform_groups, input_binning)
                                @@ Restrict(heap, (DOMAIN heap) \ NominalIds)
    /\ last' = "_compute_nominal_transforms"
    /\ repeat' = (last = "_compute_nominal_transforms" /\ outcome = "ok")
    /\ UNCHANGED <<pc, base_init, particles, transform_groups, sum_grouped_flavints,
                   input_names, output_names, input_binning, output_binning, params,
                   transforms>>

compute_transforms ==
    /\ pc = "ready"
    /\ nominal_transforms # NoTransformSet
    /\ LET aeff_scale == params.aeff_scale
           livetime_s == m_as_sec(params.livetime)
           r == Rescale(transform_groups, nominal_transforms[1], Restrict(heap, NominalIds),
                        aeff_scale * livetime_s, params.nutau_cc_norm,
                        sum_grouped_flavints)
       IN  IF r.err # None
           THEN /\ outcome' = r.err
                /\ heap' = Restrict(r.heap, NominalIds)
                           @@ Restrict(heap, (DOMAIN heap) \ NominalIds)
                /\ UNCHANGED transforms
           ELSE /\ outcome' = "ok"
                /\ heap' = r.heap
                /\ transforms' = TransformSet(r.out)
    /\ last' = "_compute_transforms"
    /\ hist_calls' = 0
    /\ events_built' = FALSE
    /\ repeat' = (last = "_compute_transforms" /\ outcome = "ok")
    /\ UNCHANGED <<pc, base_init, particles, transform_groups, sum_grouped_flavints,
                   input_names, output_names, input_binning, output_binning, params,
                   events, events_hash, nominal_transforms>>

\* --------------------------------------------------------- input domains
nue == StrFlav("nue")
nuebar == StrFlav("nuebar")
nutau == StrFlav("nutau")
nutaubar == StrFlav("nutaubar")

\* the group names a grouping specification is composed of
GroupSpecs ==
    { nue, nutau,
      << <<"nue", "cc">> >>, << <<"nutau", "cc">> >>,
      << <<"nue", "">>, <<"nuebar", "">> >>,
      << <<"nue", "cc">>, <<"nuebar", "cc">> >>,
      << <<"nue", "nc">>, <<"nuebar", "nc">> >>,
      << <<"nutau", "cc">>, <<"nutaubar", "cc">> >> }

\* grouping specifications: up to MaxGroups different groups, which may overlap
GroupingSpecs ==
    {sp \in UNION {[1..n -> GroupSpecs] : n \in 1..MaxGroups} :
        \A i, j \in 1..Len(sp) : i # j => sp[i] # sp[j]}

InputNameChoices ==
    { NoNames, <<nue>>, <<nue, nuebar>>, <<nuebar, nue>>, <<nutau, nutaubar>> }

RECURSIVE BinningOf(_, _)
BinningOf(dims, order) ==
    IF order = << >> THEN << >>
    ELSE (IF Head(order) \in dims THEN <<Head(order)>> ELSE << >>)
         \o BinningOf(dims, Tail(order))

Binnings ==
    {BinningOf(d, <<"true_energy", "true_coszen", "true_azimuth", "true_foo">>) :
        d \in SUBSET DimNames}

EnergyCoszen == <<"true_energy", "true_coszen">>

Config(p, spec, sum_inputs, in_names, binning) ==
    [particles |-> p, transform_groups |-> spec, sum_grouped_flavints |-> sum_inputs,
     input_names |-> in_names, input_binning |-> binning, output_binning |-> binning]

\* groupings and input names vary
GroupingConfigs ==
    {Config("neutrinos", spec, b, ins, EnergyCoszen) :
        spec \in GroupingSpecs, b \in BOOLEAN, ins \in InputNameChoices}

\* binnings vary
BinningConfigs ==
    {Config("neutrinos", << << <<"nue", "cc">>, <<"nuebar", "cc">> >> >>, b, NoNames, bn) :
        b \in BOOLEAN, bn \in Binnings}

\* particles vary
ParticleConfigs ==
    {Config(p, <<nue>>, b, ins, EnergyCoszen) :
        p \in {"neutrinos", "muons", "electrons"}, b \in BOOLEAN,
        ins \in {NoNames, <<nue>>}}

AssembleConfigs == GroupingConfigs \cup BinningConfigs \cup ParticleConfigs

LivetimeValues == {[m |-> 1, u |-> "s"], [m |-> 1, u |-> "min"]}

ParamValues ==
    [aeff_weight_file |-> Sources,
     livetime |-> LivetimeValues,
     aeff_scale |-> 1..MaxParam,
     nutau_cc_norm |-> 1..MaxParam]

AssembleParams ==
    {[aeff_weight_file |-> "a.hdf5", livetime |-> [m |-> 1, u |-> "min"],
      aeff_scale |-> s, nutau_cc_norm |-> 2] : s \in 1..MaxParam}

StageConfigs ==
    {Config("neutrinos", spec, b, NoNames, EnergyCoszen) :
        spec \in { <<nutau>>,
                   << << <<"nue", "cc">>, <<"nuebar", "cc">> >>, << <<"nutau", "cc">> >> >> },
        b \in BOOLEAN}
    \cup {Config("neutrinos", <<nue, nutau>>, b, <<nue>>, <<"true_energy">>) : b \in BOOLEAN}
    \cup {Config("neutrinos", <<nue>>, TRUE, NoNames, <<"true_coszen">>)}

StageParams ==
    {[aeff_weight_file |-> "a.hdf5", livetime |-> [m |-> 1, u |-> "s"],
      aeff_scale |-> 1, nutau_cc_norm |-> 1]}

\* ---------------------------------------------------------- specifications
Init ==
    /\ pc = "new"
    /\ base_init = FALSE
    /\ particles = None
    /\ transform_groups = << >>
    /\ sum_grouped_flavints = None
    /\ input_names = << >>
    /\ output_names = << >>
    /\ input_binning = << >>
    /\ output_binning = << >>
    /\ params = None
    /\ events = NoEvents
    /\ events_hash = None
    /\ nominal_transforms = NoTransformSet
    /\ transforms = NoTransformSet
    /\ heap = << >>
    /\ last = None
    /\ outcome = "ok"
    /\ hist_calls = 0
    /\ events_built = FALSE
    /\ repeat = FALSE

\* the stage in use: parameters change, events are reloaded, both phases run
Next ==
    \/ init(StageConfigs, StageParams)
    \/ set_param(ParamValues)
    \/ load_events
    \/ compute_nominal_transforms
    \/ compute_transforms

Spec == Init /\ [][Next]_vars

\* the two phases applied once to every configuration
NextAssemble ==
    \/ init(AssembleConfigs, AssembleParams)
    \/ compute_nominal_transforms
    \/ compute_transforms

SpecAssemble == Init /\ [][NextAssemble]_vars

\* ------------------------------------------------------------------ views
Nominal == nominal_transforms[1]

Rescaled == transforms[1]

HasNominal == nominal_transforms # NoTransformSet

HasRescaled == transforms # NoTransformSet

RescaleReturned == last = "_compute_transforms" /\ outcome = "ok"

SameTags(a, b) ==
    /\ a.input_names = b.input_names
    /\ a.output_name = b.output_name
    /\ a.input_binning = b.input_binning
    /\ a.output_binning = b.output_binning
    /\ a.sum_inputs = b.sum_inputs

\* the transforms of the nominal set built from the array of group i
OfGroup(i) == {k \in 1..Len(Nominal) : Nominal[k].xform_array = i}

IntersectingInputs(g) == {j \in 1..Len(input_names) : Intersects(g, input_names[j])}

ContainedOutputs(g) == {k \in 1..Len(output_names) : Contains(g, output_names[k])}

NamesIn(seq) == {seq[i] : i \in 1..Len(seq)}

\* ----------------------------------------------------------------- claims
\* C1 (as claimed): every transform returned by _compute_transforms has the
\* array of its matching nominal transform times aeff_scale times the livetime
\* in seconds, and times nutau_cc_norm exactly when its own output name is
\* nutau_cc or nutaubar_cc.
C1_RescaleLinearity ==
    RescaleReturned =>
        \A k \in 1..Len(Rescaled) :
            \E j \in 1..Len(Nominal) :
                /\ Nominal[j].input_names = Rescaled[k].input_names
                /\ Nominal[j].output_name = Rescaled[k].output_name
                /\ heap[Rescaled[k].xform_array] =
                       ArrayTimes(heap[Nominal[j].xform_array],
                                  params.aeff_scale * m_as_sec(params.livetime)
                                  * (IF Rescaled[k].output_name \in SpecialNames
                                     THEN params.nutau_cc_norm ELSE 1))

\* C2 (as claimed): the Transform Set returned by _compute_transforms has the
\* structure of the nominal one: as many transforms, the k-th with the tags of
\* the k-th nominal transform.
C2_SameStructure ==
    RescaleReturned =>
        /\ Len(Rescaled) = Len(Nominal)
        /\ \A k \in 1..Len(Rescaled) : SameTags(Rescaled[k], Nominal[k])

C4_MergedInputs ==
    (HasNominal /\ sum_grouped_flavints = TRUE) =>
        \A i \in 1..Len(transform_groups) : \A k \in OfGroup(i) :
            /\ Nominal[k].input_names =
                   SelectSeq(input_names, LAMBDA n : Intersects(transform_groups[i], n))
            /\ Nominal[k].output_name = Str(transform_groups[i])
            /\ Nominal[k].sum_inputs

UniquePairs(ts) ==
    \A a, b \in 1..Len(ts) :
        (a # b /\ ts[a].output_name = ts[b].output_name)
            => (NamesIn(ts[a].input_names) \cap NamesIn(ts[b].input_names)) = {}

\* C5 (as claimed): a Transform Set of either phase holds at most one transform
\* per (input name, output name) pair.
C5_UniquePairs ==
    /\ HasNominal => UniquePairs(Nominal)
    /\ HasRescaled => UniquePairs(Rescaled)

NominalArrays == Restrict(heap, NominalIds)

SecondNominalCall == last = "_compute_nominal_transforms" /\ repeat

\* C6 (as claimed): a second invocation of _compute_nominal_transforms directly
\* after a successful one returns the identical Transform Set and does not call
\* the event source's histogram method.
C6_IdempotentNoHistogram ==
    [][SecondNominalCall' =>
          /\ outcome' = "ok"
          /\ nominal_transforms' = nominal_transforms
          /\ NominalArrays' = NominalArrays
          /\ hist_calls' = 0]_vars

\* C6 (amended): the second invocation returns the identical Transform Set and
\* does not build the event collection again, but it calls the histogram method
\* once for every transform group.
C6_IdempotentRehistogram ==
    [][SecondNominalCall' =>
          /\ outcome' = "ok"
          /\ nominal_transforms' = nominal_transforms
          /\ NominalArrays' = NominalArrays
          /\ ~events_built'
          /\ hist_calls' = Len(transform_groups)]_vars

C6_Witness ==
    /\ SecondNominalCall
    /\ outcome = "ok"
    /\ hist_calls = 2
    /\ Len(Nominal) > 0

InvalidBinning ==
    \/ "true_energy" \notin NamesOf(input_binning)
    \/ ~(NamesOf(input_binning) \subseteq {"true_energy", "true_coszen", "true_azimuth"})

\* C7: with an input binning that lacks true_energy or has an unrecognised
\* dimension, _compute_nominal_transforms ends in an error, has not called the
\* histogram method and leaves no Transform Set; with a valid input binning it
\* raises no validation error.
C7_ValidationFirst ==
    (pc = "ready" /\ last = "_compute_nominal_transforms") =>
        IF InvalidBinning
        THEN outcome # "ok" /\ hist_calls = 0 /\ ~HasNominal
        ELSE outcome # "ValueError"

C7_Witness ==
    /\ last = "_compute_nominal_transforms"
    /\ "true_foo" \in NamesOf(input_binning)
    /\ "true_energy" \in NamesOf(input_binning)
    /\ outcome = "ValueError"
    /\ events_hash # None

NothingStarted ==
    /\ ~base_init
    /\ events = NoEvents
    /\ events_hash = None
    /\ ~HasNominal
    /\ ~HasRescaled
    /\ hist_calls = 0
    /\ ~events_built

\* C8 (as claimed): construction with particles other than 'neutrinos' fails
\* with a ConfigurationError before the base stage is initialised, no events
\* loaded and no transform computed.
C8_ConfigurationError ==
    particles \notin {None, "neutrinos"} =>
        pc = "failed" /\ outcome = "ConfigurationError" /\ NothingStarted

\* C8 (amended): construction with particles other than 'neutrinos' fails
\* before the base stage is initialised, no events loaded and no transform
\* computed; the error is the AssertionError of line 93 for a value outside
\* {neutrinos, muons} when assertions are on, and otherwise (muons, or
\* assertions off) the UnboundLocalError of line 125, output_names never
\* having been assigned.
C8_FailsBeforeBaseInit ==
    particles \notin {None, "neutrinos"} =>
        /\ pc = "failed"
        /\ NothingStarted
        /\ outcome \in {"AssertionError", "UnboundLocalError"}
        /\ particles = "muons" => outcome = "UnboundLocalError"

C8_Witness == particles = "muons" /\ pc = "failed" /\ outcome = "UnboundLocalError"

NoAlias ==
    (HasNominal /\ HasRescaled) =>
        \A k \in 1..Len(Rescaled) :
            /\ Rescaled[k].xform_array \notin NominalIds
            /\ \A j \in 1..Len(Nominal) : Rescaled[k].xform_array # Nominal[j].xform_array

\* C9: _compute_transforms leaves every nominal transform (tags and array) as
\* it was, and no returned transform shares storage with a nominal array.
C9_NominalReadOnly ==
    [][(last' = "_compute_transforms") =>
          /\ nominal_transforms' = nominal_transforms
          /\ NominalArrays' = NominalArrays
          /\ NoAlias']_vars

C9_Witness ==
    /\ RescaleReturned
    /\ Len(Rescaled) > 0
    /\ params.aeff_scale = 2
    /\ params.nutau_cc_norm = 2
    /\ \E k \in 1..Len(Rescaled) : Rescaled[k].output_name \in SpecialNames

\* C10: load_events (alone or at the start of _compute_nominal_transforms)
\* builds the event collection exactly when the hash of the current source
\* differs from events_hash; a held events_hash is the hash of the source the
\* held events were built from; a failed build leaves events_hash and events.
C10_HashGuardedReload ==
    [][(last' \in {"load_events", "_compute_nominal_transforms"}) =>
          /\ events_built' <=> (hash_obj[params.aeff_weight_file] # events_hash)
          /\ outcome' = "IOError" => (events_hash' = events_hash /\ events' = events)
          /\ events_hash' # None =>
                 (events'.source # None /\ events_hash' = hash_obj[events'.source])]_vars

C10_Witness ==
    /\ last = "load_events"
    /\ outcome = "IOError"
    /\ events_hash # None
    /\ events_hash # hash_obj[params.aeff_weight_file]
    /\ events_hash = hash_obj[events.source]

====
